---- MODULE Spec2Model ----
(***************************************************************************)
(* Model of the tic-tac-toe server "tic-tak online/app.py": the session    *)
(* registry (ACTIVE_SESSIONS and the per-client Flask session), the room   *)
(* directory (rooms) and the game directory (games).                       *)
(*                                                                         *)
(* The server is run by app.run(), which serves every request on its own   *)
(* thread, so handlers interleave.  login and join_room test shared state  *)
(* and write it later, a move writes the board before it writes the        *)
(* outcome, and a poll that cleans up tests the room directory before it   *)
(* deletes from it; each is modelled as two steps with the request in      *)
(* flight recorded in pending.  The other handlers are one step each.  An  *)
(* exception raised in a handler is the response status "KeyError".        *)
(*                                                                         *)
(* uuid4() values are fresh: session ids and room ids are numbered in the  *)
(* order they are made.  time.time() is the counter now.  Values that are  *)
(* written and never read are left out (session['player_id'],              *)
(* room['created_at'], 'registered_at').  A client sends one request at a  *)
(* time.  Rows and columns of a move are in 0..2.                          *)
(*                                                                         *)
(* Spec is the whole program.  It is checked in parts: SpecSessions runs   *)
(* the session registry from the start of the server, SpecRooms runs the   *)
(* room manager from the session configurations the registry reaches,      *)
(* SpecGame runs moves and leaves from the rooms the room manager reaches, *)
(* SpecPoll runs moves, polls, leaves and the clock from games the moves   *)
(* reach, SpecRelogin runs logins, logouts and moves from such a game.     *)
(* SpecLive is SpecPoll with a clock that goes on for ever and with        *)
(* fairness: requests in flight complete and the clients keep polling.     *)
(***************************************************************************)
EXTENDS Integers, Sequences, FiniteSets, TLC

VARIABLES users, ACTIVE_SESSIONS, session, rooms, games,
          game_completion_times, now,
          pending, nextToken, nextRoom, resp

vars == <<users, ACTIVE_SESSIONS, session, rooms, games,
          game_completion_times, now,
          pending, nextToken, nextRoom, resp>>

-----------------------------------------------------------------------------
(* Bounds of the model *)

\* uuid4() session ids handed out in one run
MaxTokens == 3
\* uuid4()[:8] room ids handed out in one run
MaxRooms == 2
\* seconds of time.time() a run covers
MaxTime == 6
\* seconds get_game_state keeps a finished game
CleanupDelay == 5

\* browsers, each holding one Flask session cookie
Clients == {"c1", "c2"}
\* the usernames submitted in forms; "al" is shorter than register accepts
Names == {"alice", "bob", "carol", "al"}
\* the passwords submitted in forms; "abc" is shorter than register accepts
Passwords == {"pass1", "abc"}

-----------------------------------------------------------------------------
(* Absent values *)

\* a key missing from the Flask session, or Python's None, for a username
NoUser == ""
\* a key missing from the session or from ACTIVE_SESSIONS, for a session id
NoToken == 0
\* a key missing from the session, for a room or game id
NoRoom == 0
\* Python's None for a player number (also a missing 'player_num' key)
\* and for the winner of a game
None == -1
\* the winner 'draw' (the other winners are the player numbers 0 and 1)
Draw == 2
\* no 'board' key in a response
NoBoard == <<>>

-----------------------------------------------------------------------------
(* Credential store *)

hash_password(password) == <<"sha256", password>>

NewUser(password) ==
    [password |-> hash_password(password), wins |-> 0, losses |-> 0,
     draws |-> 0, games_played |-> 0]

-----------------------------------------------------------------------------
(* TicTacToeGame *)

EmptyBoard == [i \in 0..2 |-> [j \in 0..2 |-> ""]]

TicTacToeGame(game_id) ==
    [board |-> EmptyBoard, players |-> <<>>, current_player |-> 0,
     game_id |-> game_id, winner |-> None, game_over |-> FALSE]

\* the player number add_player returns: None when the game has two players
add_player_result(game) ==
    IF Len(game.players) < 2 THEN Len(game.players) ELSE None

\* the game after add_player
add_player(game, username) ==
    IF Len(game.players) < 2
    THEN [game EXCEPT !.players =
              Append(@, [id |-> Len(game.players), username |-> username])]
    ELSE game

\* the mark make_move writes for a player number
symbol_of(player_id) == IF player_id = 0 THEN "X" ELSE "O"

\* check_winner without the diagonal from the top right
check_winner_one_diagonal(board, symbol) ==
    \/ \E i \in 0..2 :
          \/ \A j \in 0..2 : board[i][j] = symbol
          \/ \A j \in 0..2 : board[j][i] = symbol
    \/ \A i \in 0..2 : board[i][i] = symbol

check_winner(board, symbol) ==
    \/ \E i \in 0..2 :
          \/ \A j \in 0..2 : board[i][j] = symbol
          \/ \A j \in 0..2 : board[j][i] = symbol
    \/ \A i \in 0..2 : board[i][i] = symbol
    \/ \A i \in 0..2 : board[i][2 - i] = symbol

\* the test of make_move for a draw: no cell is ''
board_full(board) == \A i \in 0..2, j \in 0..2 : board[i][j] # ""

\* move_refused without the test of the cell
move_refused_no_cell_test(game, player_id, row, col) ==
    \/ game.winner # None
    \/ player_id # game.current_player

\* move_refused with the indices of the cell exchanged
move_refused_transposed(game, player_id, row, col) ==
    \/ game.winner # None
    \/ player_id # game.current_player
    \/ game.board[col][row] # ""

\* move_refused without the test of the winner
move_refused_no_winner_test(game, player_id, row, col) ==
    \/ player_id # game.current_player
    \/ game.board[row][col] # ""

\* the test make_move opens with: TRUE when the move is refused
move_refused(game, player_id, row, col) ==
    \/ game.winner # None
    \/ player_id # game.current_player
    \/ game.board[row][col] # ""

\* the game after make_move wrote the mark of player_id (lines 89-91)
place_mark(game, player_id, row, col) ==
    [game EXCEPT !.board[row][col] = symbol_of(player_id)]

\* settle_move with the test for a full board before the test for a winner
settle_move_draw_first(game, player_id) ==
    IF board_full(game.board)
    THEN [game EXCEPT !.winner = Draw, !.game_over = TRUE]
    ELSE IF check_winner(game.board, symbol_of(player_id))
    THEN [game EXCEPT !.winner = player_id, !.game_over = TRUE]
    ELSE [game EXCEPT !.current_player = 1 - game.current_player]

\* the game after make_move, having written the mark of player_id, wrote
\* the winner or passed the turn (lines 93-105)
settle_move(game, player_id) ==
    IF check_winner(game.board, symbol_of(player_id))
    THEN [game EXCEPT !.winner = player_id, !.game_over = TRUE]
    ELSE IF board_full(game.board)
    THEN [game EXCEPT !.winner = Draw, !.game_over = TRUE]
    ELSE [game EXCEPT !.current_player = 1 - game.current_player]

\* the users file after update_user_stats(username, result)
update_user_stats(us, username, result) ==
    IF username \notin DOMAIN us
    THEN us
    ELSE [us EXCEPT ![username] =
            [@ EXCEPT !.wins = IF result = "win" THEN @ + 1 ELSE @,
                      !.losses = IF result = "loss" THEN @ + 1 ELSE @,
                      !.draws = IF result = "draw" THEN @ + 1 ELSE @,
                      !.games_played = @ + 1]]

\* the result update_stats books for a player of a finished game
result_of(game, player) ==
    IF game.winner = Draw THEN "draw"
    ELSE IF player.id = game.winner THEN "win"
    ELSE "loss"

\* the users file after the loop of update_stats from player i on
RECURSIVE update_stats_from(_, _, _)
update_stats_from(us, game, i) ==
    IF i > Len(game.players)
    THEN us
    ELSE update_stats_from(
             update_user_stats(us, game.players[i].username,
                               result_of(game, game.players[i])),
             game, i + 1)

\* update_stats with its loop run twice
update_stats_twice(us, game) ==
    update_stats_from(update_stats_from(us, game, 1), game, 1)

\* the users file after update_stats of a finished game
update_stats(us, game) == update_stats_from(us, game, 1)

-----------------------------------------------------------------------------
(* Helpers on Python lists and dicts *)

Range(s) == {s[i] : i \in 1..Len(s)}

\* list.remove(x): drops the first occurrence of x
RECURSIVE ListRemove(_, _)
ListRemove(s, x) ==
    IF s = <<>> THEN <<>>
    ELSE IF Head(s) = x THEN Tail(s)
    ELSE <<Head(s)>> \o ListRemove(Tail(s), x)

\* del d[k]
DictDel(d, k) == [x \in (DOMAIN d) \ {k} |-> d[x]]

\* d[k] = v
DictPut(d, k, v) == [x \in (DOMAIN d) \cup {k} |-> IF x = k THEN v ELSE d[x]]

-----------------------------------------------------------------------------
(* Flask session of a client *)

EmptySession ==
    [username |-> NoUser, session_id |-> NoToken, game_id |-> NoRoom,
     player_num |-> None, room_id |-> NoRoom]

Idle == [op |-> "idle", username |-> NoUser, room_id |-> NoRoom,
         row |-> None, col |-> None, game |-> TicTacToeGame(NoRoom)]

\* the response of the handler that finished last
Response(c, op, status, room_id, player_num) ==
    [client |-> c, op |-> op, status |-> status, room_id |-> room_id,
     player_num |-> player_num, rooms |-> {},
     board |-> NoBoard, current_player |-> None, winner |-> None,
     players |-> <<>>]

is_user_logged_in(username) == username \in DOMAIN ACTIVE_SESSIONS

-----------------------------------------------------------------------------
Init ==
    /\ users = [u \in {"alice", "bob"} |-> NewUser("pass1")]
    /\ ACTIVE_SESSIONS = [u \in {} |-> NoToken]
    /\ session = [c \in Clients |-> EmptySession]
    /\ rooms = [r \in {} |-> 0]
    /\ games = [r \in {} |-> 0]
    /\ game_completion_times = [r \in {} |-> 0]
    /\ now = 0
    /\ pending = [c \in Clients |-> Idle]
    /\ nextToken = 1
    /\ nextRoom = 1
    /\ resp = Response("", "start", "", NoRoom, None)

-----------------------------------------------------------------------------
(* Session registry: /login, /register, /logout, and the pages that        *)
(* validate the session: /, /lobby, /stats                                 *)

sessVars == <<users, ACTIVE_SESSIONS, session, nextToken>>
roomVars == <<rooms, games, nextRoom>>
timeVars == <<game_completion_times, now>>

\* the credential test of login
credentials_ok(username, password) ==
    /\ username \in DOMAIN users
    /\ users[username].password = hash_password(password)

\* login, up to the tests: wrong credentials and a live session are answered
\* at once, otherwise the request goes on to create its session
login_check(c, username, password) ==
    /\ pending[c] = Idle
    /\ IF credentials_ok(username, password)
       THEN IF is_user_logged_in(username)
            THEN /\ resp' = Response(c, "login", "AlreadyActive", NoRoom, None)
                 /\ UNCHANGED pending
            ELSE /\ pending' = [pending EXCEPT ![c] =
                                   [Idle EXCEPT !.op = "login", !.username = username]]
                 /\ UNCHANGED resp
       ELSE /\ resp' = Response(c, "login", "InvalidCredentials", NoRoom, None)
            /\ UNCHANGED pending
    /\ UNCHANGED <<sessVars, roomVars, timeVars>>

\* the session a client holds after a new session id was made for username
begin_session(s, username, session_id) ==
    [s EXCEPT !.username = username, !.session_id = session_id]

\* login, the writes: a fresh session id goes to the session and the registry
login_commit(c) ==
    /\ pending[c].op = "login"
    /\ nextToken <= MaxTokens
    /\ session' = [session EXCEPT ![c] =
                      begin_session(@, pending[c].username, nextToken)]
    /\ ACTIVE_SESSIONS' = DictPut(ACTIVE_SESSIONS, pending[c].username, nextToken)
    /\ nextToken' = nextToken + 1
    /\ pending' = [pending EXCEPT ![c] = Idle]
    /\ resp' = Response(c, "login", "ok", NoRoom, None)
    /\ UNCHANGED <<users, roomVars, timeVars>>

register(c, username, password) ==
    /\ pending[c] = Idle
    /\ IF username = "" \/ Len(username) < 3
       THEN /\ resp' = Response(c, "register", "BadUsername", NoRoom, None)
            /\ UNCHANGED sessVars
       ELSE IF password = "" \/ Len(password) < 4
       THEN /\ resp' = Response(c, "register", "BadPassword", NoRoom, None)
            /\ UNCHANGED sessVars
       ELSE IF username \in DOMAIN users
       THEN /\ resp' = Response(c, "register", "UsernameTaken", NoRoom, None)
            /\ UNCHANGED sessVars
       ELSE /\ nextToken <= MaxTokens
            /\ users' = DictPut(users, username, NewUser(password))
            /\ session' = [session EXCEPT ![c] =
                              begin_session(@, username, nextToken)]
            /\ ACTIVE_SESSIONS' = DictPut(ACTIVE_SESSIONS, username, nextToken)
            /\ nextToken' = nextToken + 1
            /\ resp' = Response(c, "register", "ok", NoRoom, None)
    /\ UNCHANGED <<roomVars, pending, timeVars>>

\* end_session without the deletion
end_session_keeps_entry(active, s) == active

\* the registry after logout of a client holding session s
end_session(active, s) ==
    IF s.username # NoUser /\ s.username \in DOMAIN active
    THEN DictDel(active, s.username)
    ELSE active

logout(c) ==
    /\ pending[c] = Idle
    /\ ACTIVE_SESSIONS' = end_session(ACTIVE_SESSIONS, session[c])
    /\ session' = [session EXCEPT ![c] = EmptySession]
    /\ resp' = Response(c, "logout", "ok", NoRoom, None)
    /\ UNCHANGED <<users, nextToken, roomVars, pending, timeVars>>

\* the test index, lobby and stats make of a session that has a username:
\* TRUE when the session is taken for valid
session_accepted(active, s) ==
    ~ (s.username \in DOMAIN active /\ active[s.username] # s.session_id)

\* index, lobby and stats up to the end of their session test
session_page(c, op) ==
    /\ pending[c] = Idle
    /\ IF session[c].username = NoUser
       THEN /\ resp' = Response(c, op, "NotLoggedIn", NoRoom, None)
            /\ UNCHANGED session
       ELSE IF session_accepted(ACTIVE_SESSIONS, session[c])
       THEN /\ resp' = Response(c, op, "ok", NoRoom, None)
            /\ UNCHANGED session
       ELSE /\ session' = [session EXCEPT ![c] = EmptySession]
            /\ resp' = Response(c, op, "StaleSession", NoRoom, None)
    /\ UNCHANGED <<users, ACTIVE_SESSIONS, nextToken, roomVars, pending, timeVars>>

index(c) == session_page(c, "index")
lobby(c) == session_page(c, "lobby")
stats(c) == session_page(c, "stats")

-----------------------------------------------------------------------------
(* Room manager: /create_room, /get_rooms, /join_room/<room_id>,           *)
(* /leave_room                                                             *)

\* the room create_room stores
new_room(username) ==
    [creator |-> username, players |-> <<username>>, status |-> "waiting"]

\* the session after create_room or join_room bound it to a room
bind_room(s, room_id, player_num) ==
    [s EXCEPT !.game_id = room_id, !.player_num = player_num, !.room_id = room_id]

create_room(c) ==
    /\ pending[c] = Idle
    /\ IF session[c].username = NoUser
       THEN /\ resp' = Response(c, "create_room", "NotLoggedIn", NoRoom, None)
            /\ UNCHANGED <<session, roomVars>>
       ELSE /\ nextRoom <= MaxRooms
            /\ rooms' = DictPut(rooms, nextRoom, new_room(session[c].username))
            /\ games' = DictPut(games, nextRoom,
                                add_player(TicTacToeGame(nextRoom), session[c].username))
            /\ session' = [session EXCEPT ![c] = bind_room(@, nextRoom, 0)]
            /\ nextRoom' = nextRoom + 1
            /\ resp' = Response(c, "create_room", "success", nextRoom, 0)
    /\ UNCHANGED <<users, ACTIVE_SESSIONS, nextToken, pending, timeVars>>

\* waiting_rooms without the test for a member of the room
waiting_rooms_with_own(username) ==
    {r \in DOMAIN rooms : rooms[r].status = "waiting"}

\* the rooms get_rooms lists for username
waiting_rooms(username) ==
    {r \in DOMAIN rooms :
        rooms[r].status = "waiting" /\ username \notin Range(rooms[r].players)}

get_rooms(c) ==
    /\ pending[c] = Idle
    /\ IF session[c].username = NoUser
       THEN resp' = Response(c, "get_rooms", "NotLoggedIn", NoRoom, None)
       ELSE resp' = [Response(c, "get_rooms", "success", NoRoom, None)
                        EXCEPT !.rooms = waiting_rooms(session[c].username)]
    /\ UNCHANGED <<sessVars, roomVars, pending, timeVars>>

\* join_room_error without the test for a member of the room
join_room_error_no_member_test(username, room_id) ==
    IF room_id \notin DOMAIN rooms THEN "RoomNotFound"
    ELSE IF rooms[room_id].status # "waiting" THEN "RoomNotWaiting"
    ELSE ""

\* the tests join_room makes on the room, in their order: the failure they
\* end in, or "" when all pass
join_room_error(username, room_id) ==
    IF room_id \notin DOMAIN rooms THEN "RoomNotFound"
    ELSE IF rooms[room_id].status # "waiting" THEN "RoomNotWaiting"
    ELSE IF username \in Range(rooms[room_id].players) THEN "AlreadyMember"
    ELSE ""

\* join_room, up to the tests on the room: a failed test is answered at
\* once, otherwise the request goes on to admit the player
join_room_check(c, room_id) ==
    /\ pending[c] = Idle
    /\ IF session[c].username = NoUser
       THEN /\ resp' = Response(c, "join_room", "NotLoggedIn", NoRoom, None)
            /\ UNCHANGED pending
       ELSE IF join_room_error(session[c].username, room_id) # ""
       THEN /\ resp' = Response(c, "join_room",
                                join_room_error(session[c].username, room_id),
                                NoRoom, None)
            /\ UNCHANGED pending
       ELSE /\ pending' = [pending EXCEPT ![c] =
                              [Idle EXCEPT !.op = "join_room", !.room_id = room_id]]
            /\ UNCHANGED resp
    /\ UNCHANGED <<sessVars, roomVars, timeVars>>

\* admit without the change of status
admit_keeps_status(room, username) ==
    [room EXCEPT !.players = Append(@, username)]

\* the room after join_room admitted username
admit(room, username) ==
    [room EXCEPT !.players = Append(@, username), !.status = "playing"]

\* join_room, the writes.  The room object was fetched by the tests; when
\* the last member left in between, the room and its game are gone from
\* the directories and games[room_id] raises KeyError.
join_room_commit(c) ==
    /\ pending[c].op = "join_room"
    /\ LET room_id == pending[c].room_id
           username == session[c].username
       IN IF room_id \in DOMAIN rooms
          THEN /\ rooms' = [rooms EXCEPT ![room_id] = admit(@, username)]
               /\ games' = [games EXCEPT ![room_id] = add_player(@, username)]
               /\ session' = [session EXCEPT ![c] =
                     bind_room(@, room_id, add_player_result(games[room_id]))]
               /\ resp' = Response(c, "join_room", "success", room_id,
                                   add_player_result(games[room_id]))
          ELSE /\ resp' = Response(c, "join_room", "KeyError", NoRoom, None)
               /\ UNCHANGED <<rooms, games, session>>
    /\ pending' = [pending EXCEPT ![c] = Idle]
    /\ UNCHANGED <<users, ACTIVE_SESSIONS, nextToken, nextRoom, timeVars>>

\* the session after leave_room popped its room keys
unbind_room(s) ==
    [s EXCEPT !.game_id = NoRoom, !.player_num = None, !.room_id = NoRoom]

leave_room(c) ==
    /\ pending[c] = Idle
    /\ IF session[c].username = NoUser
       THEN /\ resp' = Response(c, "leave_room", "NotLoggedIn", NoRoom, None)
            /\ UNCHANGED <<session, rooms, games>>
       ELSE /\ LET room_id == session[c].room_id
                   username == session[c].username
               IN IF room_id \in DOMAIN rooms
                     /\ username \in Range(rooms[room_id].players)
                  THEN LET left == ListRemove(rooms[room_id].players, username)
                       IN IF Len(left) = 0
                          THEN /\ rooms' = DictDel(rooms, room_id)
                               /\ games' = DictDel(games, room_id)
                          ELSE IF Len(left) = 1
                          THEN /\ rooms' = [rooms EXCEPT ![room_id] =
                                     [@ EXCEPT !.players = left, !.status = "waiting"]]
                               /\ UNCHANGED games
                          ELSE /\ rooms' = [rooms EXCEPT ![room_id].players = left]
                               /\ UNCHANGED games
                  ELSE UNCHANGED <<rooms, games>>
            /\ session' = [session EXCEPT ![c] = unbind_room(@)]
            /\ resp' = Response(c, "leave_room", "success", NoRoom, None)
    /\ UNCHANGED <<users, ACTIVE_SESSIONS, nextToken, nextRoom, pending, timeVars>>

-----------------------------------------------------------------------------------------------------------------------------------------------------
(* Moves: /move.  TicTacToeGame.make_move writes the board and then the    *)
(* winner or the turn, with no lock: the handler is two steps, the tests   *)
(* with the write of the mark, and the rest.  Between the two every other  *)
(* move on the game is refused, since current_player and winner are as the *)
(* tests found them and the other client holds another player number.      *)

\* the response of /move after the game took or refused the move
move_response(c, success, game) ==
    [Response(c, "move", IF success THEN "success" ELSE "error", NoRoom, None)
        EXCEPT !.board = game.board,
               !.current_player = game.current_player,
               !.winner = game.winner]

\* game_completion_times after the handler looked at game.game_over
note_completion(times, game) ==
    IF game.game_over THEN DictPut(times, game.game_id, now) ELSE times

\* /move, up to the write of the mark: a request that is not in a game
\* and a refused move are answered at once, otherwise the mark is on the
\* board and the request goes on to settle the outcome
make_move_place(c, row, col) ==
    /\ pending[c] = Idle
    /\ IF session[c].username = NoUser \/ session[c].game_id = NoRoom
       THEN /\ resp' = Response(c, "move", "NotInGame", NoRoom, None)
            /\ UNCHANGED <<games, game_completion_times, pending>>
       ELSE IF session[c].game_id \notin DOMAIN games
       THEN /\ resp' = Response(c, "move", "GameNotFound", NoRoom, None)
            /\ UNCHANGED <<games, game_completion_times, pending>>
       ELSE LET game_id == session[c].game_id
                player_num == session[c].player_num
                game == games[game_id]
            IN IF move_refused(game, player_num, row, col)
               THEN /\ game_completion_times' =
                          note_completion(game_completion_times, game)
                    /\ resp' = move_response(c, FALSE, game)
                    /\ UNCHANGED <<games, pending>>
               ELSE /\ games' = [games EXCEPT ![game_id] =
                                     place_mark(@, player_num, row, col)]
                    /\ pending' = [pending EXCEPT ![c] =
                          [Idle EXCEPT !.op = "move", !.room_id = game_id,
                                       !.row = row, !.col = col]]
                    /\ UNCHANGED <<resp, game_completion_times>>
    /\ UNCHANGED <<sessVars, rooms, nextRoom, now>>

\* /move, from the test for a winner on: winner or turn, the statistics
\* of a finished game, the completion time and the response.  The game of
\* a move in flight is in the directory (MoveInFlightHasGame).
make_move_finish(c) ==
    /\ pending[c].op = "move"
    /\ pending[c].room_id \in DOMAIN games
    /\ LET game_id == pending[c].room_id
           after == settle_move(games[game_id], session[c].player_num)
       IN /\ games' = [games EXCEPT ![game_id] = after]
          /\ users' = IF after.game_over THEN update_stats(users, after)
                                         ELSE users
          /\ game_completion_times' =
                note_completion(game_completion_times, after)
          /\ resp' = move_response(c, TRUE, after)
    /\ pending' = [pending EXCEPT ![c] = Idle]
    /\ UNCHANGED <<ACTIVE_SESSIONS, session, nextToken, rooms, nextRoom, now>>

-----------------------------------------------------------------------------
(* Polling and cleanup: /game_state.  A request that finds a finished game *)
(* older than CleanupDelay tests "room_id in rooms" and deletes the room   *)
(* afterwards, with no lock: it is two steps, up to that test, and from    *)
(* the deletion on.  Every other request is one step.                      *)

\* any(player['username'] == session['username'] for player in players)
user_in_game(game, username) ==
    \E i \in 1..Len(game.players) : game.players[i].username = username

\* the index of the first player of game named username
player_index(game, username) ==
    (CHOOSE i \in 1..Len(game.players) :
        /\ game.players[i].username = username
        /\ \A j \in 1..(i - 1) : game.players[j].username # username) - 1

\* cleanup_due with >= in place of >
cleanup_due_at_delay(game_id, game) ==
    /\ game.game_over
    /\ game_id \in DOMAIN game_completion_times
    /\ now - game_completion_times[game_id] >= CleanupDelay

\* the test for the cleanup of a game
cleanup_due(game_id, game) ==
    /\ game.game_over
    /\ game_id \in DOMAIN game_completion_times
    /\ now - game_completion_times[game_id] > CleanupDelay

\* the response of /game_state built from the game object
state_response(c, game_id, game, username) ==
    [Response(c, "game_state", "success", game_id, player_index(game, username))
        EXCEPT !.board = game.board,
               !.current_player = game.current_player,
               !.winner = game.winner,
               !.players = [i \in 1..Len(game.players) |-> game.players[i].username]]

\* /game_state up to the test "room_id in rooms" of the cleanup
get_game_state_check(c) ==
    /\ pending[c] = Idle
    /\ IF session[c].username = NoUser
       THEN /\ resp' = Response(c, "game_state", "NotLoggedIn", NoRoom, None)
            /\ UNCHANGED <<rooms, games, game_completion_times, pending>>
       ELSE IF session[c].game_id \notin DOMAIN games
       THEN /\ resp' = Response(c, "game_state", "GameNotFound", NoRoom, None)
            /\ UNCHANGED <<rooms, games, game_completion_times, pending>>
       ELSE LET game_id == session[c].game_id
                game == games[game_id]
                username == session[c].username
            IN IF ~ user_in_game(game, username)
               THEN /\ resp' = Response(c, "game_state", "NotInThisGame",
                                        NoRoom, None)
                    /\ UNCHANGED <<rooms, games, game_completion_times, pending>>
               ELSE IF ~ cleanup_due(game_id, game)
               THEN /\ resp' = state_response(c, game_id, game, username)
                    /\ UNCHANGED <<rooms, games, game_completion_times, pending>>
               ELSE IF game_id \in DOMAIN rooms
               THEN /\ pending' = [pending EXCEPT ![c] =
                          [Idle EXCEPT !.op = "game_state", !.room_id = game_id,
                                       !.game = game]]
                    /\ UNCHANGED <<resp, rooms, games, game_completion_times>>
               ELSE /\ games' = DictDel(games, game_id)
                    /\ game_completion_times' =
                          DictDel(game_completion_times, game_id)
                    /\ resp' = state_response(c, game_id, game, username)
                    /\ UNCHANGED <<rooms, pending>>
    /\ UNCHANGED <<sessVars, nextRoom, now>>

\* /game_state from "del rooms[room_id]" on: KeyError when the room was
\* deleted since the test; the response is built from the game object the
\* request holds
get_game_state_commit(c) ==
    /\ pending[c].op = "game_state"
    /\ LET game_id == pending[c].room_id
       IN IF game_id \notin DOMAIN rooms
          THEN /\ resp' = Response(c, "game_state", "KeyError", NoRoom, None)
               /\ UNCHANGED <<rooms, games, game_completion_times>>
          ELSE /\ rooms' = DictDel(rooms, game_id)
               /\ games' = IF game_id \in DOMAIN games
                            THEN DictDel(games, game_id) ELSE games
               /\ game_completion_times' =
                     IF game_id \in DOMAIN game_completion_times
                     THEN DictDel(game_completion_times, game_id)
                     ELSE game_completion_times
               /\ resp' = state_response(c, game_id, pending[c].game,
                                         session[c].username)
    /\ pending' = [pending EXCEPT ![c] = Idle]
    /\ UNCHANGED <<sessVars, nextRoom, now>>

\* a second passes on the clock time.time() reads
tick ==
    /\ now < MaxTime
    /\ now' = now + 1
    /\ UNCHANGED <<sessVars, roomVars, game_completion_times, pending, resp>>

-----------------------------------------------------------------------------
(* The session registry from the start of the server *)

NextSessions ==
    \E c \in Clients :
        \/ \E username \in Names, password \in Passwords :
              login_check(c, username, password)
        \/ login_commit(c)
        \/ \E username \in Names, password \in Passwords :
              register(c, username, password)
        \/ logout(c)
        \/ index(c)
        \/ lobby(c)
        \/ stats(c)

SpecSessions == Init /\ [][NextSessions]_vars

-----------------------------------------------------------------------------
(* The room manager, from session configurations the registry reaches.     *)
(* In each of them carol registered on c1 (session id 1) and logged out,   *)
(* and session ids 2 and 3 went to the two sessions held now.              *)

\* alice logged in on c1, bob on c2
TwoPlayers ==
    /\ ACTIVE_SESSIONS = [u \in {"alice", "bob"} |-> IF u = "alice" THEN 2 ELSE 3]
    /\ session = [c \in Clients |->
          IF c = "c1" THEN begin_session(EmptySession, "alice", 2)
                      ELSE begin_session(EmptySession, "bob", 3)]
    /\ rooms = [r \in {} |-> 0]
    /\ games = [r \in {} |-> 0]
    /\ nextRoom = 1

\* two logins of alice raced: c1 got session id 2, c2 got 3 and wrote the
\* registry last, so the session of c1 is stale
StaleSession ==
    /\ ACTIVE_SESSIONS = [u \in {"alice"} |-> 3]
    /\ session = [c \in Clients |->
          IF c = "c1" THEN begin_session(EmptySession, "alice", 2)
                      ELSE begin_session(EmptySession, "alice", 3)]
    /\ rooms = [r \in {} |-> 0]
    /\ games = [r \in {} |-> 0]
    /\ nextRoom = 1

\* after the raced logins c1 logged out, which deleted the registry entry
\* of alice: c1 has no session, c2 is alice with no live session id
NoLiveToken ==
    /\ ACTIVE_SESSIONS = [u \in {} |-> NoToken]
    /\ session = [c \in Clients |->
          IF c = "c1" THEN EmptySession
                      ELSE begin_session(EmptySession, "alice", 3)]
    /\ rooms = [r \in {} |-> 0]
    /\ games = [r \in {} |-> 0]
    /\ nextRoom = 1

\* carol created room 1 before she logged out (her room stays); then
\* alice logged in on c1, bob on c2
OpenRoom ==
    /\ ACTIVE_SESSIONS = [u \in {"alice", "bob"} |-> IF u = "alice" THEN 2 ELSE 3]
    /\ session = [c \in Clients |->
          IF c = "c1" THEN begin_session(EmptySession, "alice", 2)
                      ELSE begin_session(EmptySession, "bob", 3)]
    /\ rooms = [r \in {1} |-> new_room("carol")]
    /\ games = [r \in {1} |-> add_player(TicTacToeGame(1), "carol")]
    /\ nextRoom = 2

\* carol created room 1 before she logged out; then two logins of alice
\* raced as in StaleSession, so both clients hold a session of alice
StaleOpenRoom ==
    /\ ACTIVE_SESSIONS = [u \in {"alice"} |-> 3]
    /\ session = [c \in Clients |->
          IF c = "c1" THEN begin_session(EmptySession, "alice", 2)
                      ELSE begin_session(EmptySession, "alice", 3)]
    /\ rooms = [r \in {1} |-> new_room("carol")]
    /\ games = [r \in {1} |-> add_player(TicTacToeGame(1), "carol")]
    /\ nextRoom = 2

InitRooms ==
    /\ users = [u \in {"alice", "bob", "carol"} |-> NewUser("pass1")]
    /\ pending = [c \in Clients |-> Idle]
    /\ game_completion_times = [r \in {} |-> 0]
    /\ now = 0
    /\ nextToken = 4
    /\ resp = Response("", "start", "", NoRoom, None)
    /\ \/ TwoPlayers
       \/ StaleSession
       \/ NoLiveToken
       \/ OpenRoom
       \/ StaleOpenRoom

NextRooms ==
    \E c \in Clients :
        \/ create_room(c)
        \/ get_rooms(c)
        \/ \E room_id \in 1..MaxRooms : join_room_check(c, room_id)
        \/ join_room_commit(c)
        \/ leave_room(c)

SpecRooms == InitRooms /\ [][NextRooms]_vars

-----------------------------------------------------------------------------
(* Games, from the room configurations the room manager reaches with       *)
(* alice on c1 and bob on c2 (the sessions of TwoPlayers).                 *)

\* alice created room 1 and bob joined it
PlayingRoom ==
    /\ session = [c \in Clients |->
          IF c = "c1"
          THEN bind_room(begin_session(EmptySession, "alice", 2), 1, 0)
          ELSE bind_room(begin_session(EmptySession, "bob", 3), 1, 1)]
    /\ rooms = [r \in {1} |-> admit(new_room("alice"), "bob")]
    /\ games = [r \in {1} |->
                  add_player(add_player(TicTacToeGame(1), "alice"), "bob")]

\* alice created room 1 and nobody joined it
WaitingRoom ==
    /\ session = [c \in Clients |->
          IF c = "c1"
          THEN bind_room(begin_session(EmptySession, "alice", 2), 1, 0)
          ELSE begin_session(EmptySession, "bob", 3)]
    /\ rooms = [r \in {1} |-> new_room("alice")]
    /\ games = [r \in {1} |-> add_player(TicTacToeGame(1), "alice")]

InitGame ==
    /\ users = [u \in {"alice", "bob", "carol"} |-> NewUser("pass1")]
    /\ ACTIVE_SESSIONS = [u \in {"alice", "bob"} |-> IF u = "alice" THEN 2 ELSE 3]
    /\ pending = [c \in Clients |-> Idle]
    /\ game_completion_times = [r \in {} |-> 0]
    /\ now = 0
    /\ nextToken = 4
    /\ nextRoom = 2
    /\ resp = Response("", "start", "", NoRoom, None)
    /\ \/ PlayingRoom
       \/ WaitingRoom

NextGame ==
    \E c \in Clients :
        \/ \E row \in 0..2, col \in 0..2 : make_move_place(c, row, col)
        \/ make_move_finish(c)
        \/ leave_room(c)

SpecGame == InitGame /\ [][NextGame]_vars

-----------------------------------------------------------------------------
(* Polls, the clock and the end of a game, from games the moves reach.     *)

\* the board with the given rows
board_of(rows) == [i \in 0..2 |-> [j \in 0..2 |-> rows[i + 1][j + 1]]]

\* alice and bob play in room 1: four marks, alice to move; either player
\* can win and the game can be drawn
MidGame ==
    /\ session = [c \in Clients |->
          IF c = "c1"
          THEN bind_room(begin_session(EmptySession, "alice", 2), 1, 0)
          ELSE bind_room(begin_session(EmptySession, "bob", 3), 1, 1)]
    /\ rooms = [r \in {1} |-> admit(new_room("alice"), "bob")]
    /\ games = [r \in {1} |->
          [add_player(add_player(TicTacToeGame(1), "alice"), "bob")
              EXCEPT !.board = board_of(<< <<"X", "X", "">>,
                                          <<"O", "O", "">>,
                                          <<"", "", "">> >>)]]

\* carol created room 1 and logged out, alice joined it and left it, bob
\* joined it: the game still has the players carol and alice
ThirdJoiner ==
    /\ session = [c \in Clients |->
          IF c = "c1"
          THEN begin_session(EmptySession, "alice", 2)
          ELSE bind_room(begin_session(EmptySession, "bob", 3), 1, None)]
    /\ rooms = [r \in {1} |-> admit(new_room("carol"), "bob")]
    /\ games = [r \in {1} |->
          add_player(add_player(TicTacToeGame(1), "carol"), "alice")]

InitPoll ==
    /\ users = [u \in {"alice", "bob", "carol"} |-> NewUser("pass1")]
    /\ ACTIVE_SESSIONS = [u \in {"alice", "bob"} |-> IF u = "alice" THEN 2 ELSE 3]
    /\ pending = [c \in Clients |-> Idle]
    /\ game_completion_times = [r \in {} |-> 0]
    /\ now = 0
    /\ nextToken = 4
    /\ nextRoom = 2
    /\ resp = Response("", "start", "", NoRoom, None)
    /\ \/ MidGame
       \/ ThirdJoiner

NextPoll ==
    \/ \E c \in Clients :
          \/ \E row \in 0..2, col \in 0..2 : make_move_place(c, row, col)
          \/ make_move_finish(c)
          \/ get_game_state_check(c)
          \/ get_game_state_commit(c)
          \/ leave_room(c)
    \/ tick

SpecPoll == InitPoll /\ [][NextPoll]_vars

-----------------------------------------------------------------------------
(* A client that logs in again while its session names a game.             *)

\* alice logged in on c1 and created room 1, bob logged in on c2 and joined
\* it; they made four moves and alice is to move
InitRelogin ==
    /\ users = [u \in {"alice", "bob"} |-> NewUser("pass1")]
    /\ ACTIVE_SESSIONS = [u \in {"alice", "bob"} |-> IF u = "alice" THEN 1 ELSE 2]
    /\ pending = [c \in Clients |-> Idle]
    /\ game_completion_times = [r \in {} |-> 0]
    /\ now = 0
    /\ nextToken = 3
    /\ nextRoom = 2
    /\ resp = Response("", "start", "", NoRoom, None)
    /\ session = [c \in Clients |->
          IF c = "c1"
          THEN bind_room(begin_session(EmptySession, "alice", 1), 1, 0)
          ELSE bind_room(begin_session(EmptySession, "bob", 2), 1, 1)]
    /\ rooms = [r \in {1} |-> admit(new_room("alice"), "bob")]
    /\ games = [r \in {1} |->
          [add_player(add_player(TicTacToeGame(1), "alice"), "bob")
              EXCEPT !.board = board_of(<< <<"X", "X", "">>,
                                          <<"O", "O", "">>,
                                          <<"", "", "">> >>)]]

NextRelogin ==
    \E c \in Clients :
        \/ \E username \in Names, password \in Passwords :
              login_check(c, username, password)
        \/ login_commit(c)
        \/ logout(c)
        \/ \E row \in 0..2, col \in 0..2 : make_move_place(c, row, col)
        \/ make_move_finish(c)

SpecRelogin == InitRelogin /\ [][NextRelogin]_vars

-----------------------------------------------------------------------------
(* Polls of a finished game while time goes on for ever.  The cleanup      *)
(* reads the clock only in time.time() - game_completion_times[game_id]    *)
(* > 5.  When the counter now is at MaxTime a second passes by moving the  *)
(* recorded times back by one instead, and a recorded time stays at        *)
(* OldestTime, from where more than CleanupDelay seconds have passed.      *)

OldestTime == MaxTime - (CleanupDelay + 1)

\* one second passes
tick_on ==
    /\ IF now < MaxTime
       THEN /\ now' = now + 1
            /\ UNCHANGED game_completion_times
       ELSE /\ now' = now
            /\ game_completion_times' =
                  [r \in DOMAIN game_completion_times |->
                      IF game_completion_times[r] > OldestTime
                      THEN game_completion_times[r] - 1
                      ELSE OldestTime]
    /\ UNCHANGED <<sessVars, roomVars, pending, resp>>

InitLive == InitPoll /\ MidGame

NextLive ==
    \/ \E c \in Clients :
          \/ \E row \in 0..2, col \in 0..2 : make_move_place(c, row, col)
          \/ make_move_finish(c)
          \/ get_game_state_check(c)
          \/ get_game_state_commit(c)
          \/ leave_room(c)
    \/ tick_on

\* time goes on, every request in flight is completed, and every client
\* keeps polling
SpecLive ==
    /\ InitLive /\ [][NextLive]_vars
    /\ WF_vars(tick_on)
    /\ \A c \in Clients :
          /\ WF_vars(make_move_finish(c))
          /\ WF_vars(get_game_state_check(c))
          /\ WF_vars(get_game_state_commit(c))

-----------------------------------------------------------------------------
(* The whole program *)

Next ==
    \/ NextSessions
    \/ NextRooms
    \/ \E c \in Clients :
          \/ \E row \in 0..2, col \in 0..2 : make_move_place(c, row, col)
          \/ make_move_finish(c)
          \/ get_game_state_check(c)
          \/ get_game_state_commit(c)
    \/ tick

Spec == Init /\ [][Next]_vars

-----------------------------------------------------------------------------
(* Properties of the session registry *)

\* client c holds the live session id of the username in its session
HoldsLiveToken(c) ==
    /\ session[c].username # NoUser
    /\ session[c].username \in DOMAIN ACTIVE_SESSIONS
    /\ ACTIVE_SESSIONS[session[c].username] = session[c].session_id

\* the sessions that hold the live session id of username u
LiveHolders(u) == {c \in Clients : session[c].username = u /\ HoldsLiveToken(c)}

\* a step of a login request of client c for username u
LoginStep(c, u) ==
    \/ \E password \in Passwords : login_check(c, u, password)
    \/ login_commit(c) /\ pending[c].username = u

\* C1: session uniqueness.  In every reachable state at most one client
\* session holds the live session id of an identity, and a login for an
\* identity whose session id is live is rejected (it does not answer "ok")
\* and leaves the identity -> session id map unchanged.
C1_SessionUniqueness ==
    /\ [](\A u \in Names : Cardinality(LiveHolders(u)) <= 1)
    /\ [][\A c \in Clients, u \in Names :
            (is_user_logged_in(u) /\ LoginStep(c, u))
                => /\ ACTIVE_SESSIONS' = ACTIVE_SESSIONS
                   /\ ~ (resp'.client = c /\ resp'.op = "login" /\ resp'.status = "ok")]_vars

\* C2: of two login requests for the same identity whose steps interleave
\* exactly one begins a session: no two clients ever hold a session of the
\* same identity begun by login.
C2_OneLoginSucceeds ==
    \A c, d \in Clients :
        (c # d /\ session[c].username # NoUser)
            => session[c].username # session[d].username

\* a step of one of the pages that validate the session of client c
PageStep(c) == index(c) \/ lobby(c) \/ stats(c)

\* C3: the pages accept the session of a client exactly when the registry
\* holds a live session id for its identity and the client holds that id.
C3_ValidateIffLiveToken ==
    [][\A c \in Clients :
          PageStep(c) => (resp'.status = "ok" <=> HoldsLiveToken(c))]_vars

\* C5: logout clears the registry entry of the identity of the session and
\* the session itself, answers without error also when nothing is live,
\* and a logout that follows a logout changes nothing.
C5_LogoutIdempotent ==
    [][\A c \in Clients :
          logout(c) =>
              /\ resp'.status = "ok"
              /\ session'[c] = EmptySession
              /\ session[c].username # NoUser
                    => session[c].username \notin DOMAIN ACTIVE_SESSIONS'
              /\ \A u \in DOMAIN ACTIVE_SESSIONS :
                    u # session[c].username
                        => /\ u \in DOMAIN ACTIVE_SESSIONS'
                           /\ ACTIVE_SESSIONS'[u] = ACTIVE_SESSIONS[u]
              /\ session[c] = EmptySession
                    => UNCHANGED <<users, ACTIVE_SESSIONS, session, nextToken,
                                   rooms, games, nextRoom, pending,
                                   game_completion_times>>]_vars

\* a logout of c1 has emptied a registry that held a session id: the next
\* logout of c1 is the second of two consecutive ones
C5_Witness ==
    /\ resp.op = "logout" /\ resp.client = "c1"
    /\ nextToken > 1
    /\ session["c1"] = EmptySession
    /\ DOMAIN ACTIVE_SESSIONS = {}

\* C6: a login with an unknown identity or a wrong secret answers
\* InvalidCredentials and changes neither the registry nor the session, and
\* a session id is made only for verified credentials while no session id
\* of that identity is live.
C6_InvalidCredentials ==
    [][\A c \in Clients :
          /\ \A u \in Names, p \in Passwords :
                (login_check(c, u, p) /\ ~ credentials_ok(u, p))
                    => /\ resp' = Response(c, "login", "InvalidCredentials",
                                           NoRoom, None)
                       /\ UNCHANGED <<ACTIVE_SESSIONS, session, nextToken>>
          /\ (login_commit(c) /\ nextToken' # nextToken)
                => /\ pending[c].username \in DOMAIN users
                   /\ ~ is_user_logged_in(pending[c].username)]_vars

-----------------------------------------------------------------------------
(* Properties of the room manager *)

\* a step of a room operation requested by client c
RoomStep(c) ==
    \/ create_room(c)
    \/ get_rooms(c)
    \/ \E room_id \in 1..MaxRooms : join_room_check(c, room_id)
    \/ join_room_commit(c)
    \/ leave_room(c)

\* C4: the room operations are gated by the session registry.  A request
\* of a client that has no session, or whose session id is not the live one
\* of its identity, is answered with an authentication failure and changes
\* no room and no game.
C4_RoomOpsGated ==
    [][\A c \in Clients :
          (RoomStep(c) /\ ~ HoldsLiveToken(c))
              => /\ resp'.client = c
                 /\ resp'.status = "NotLoggedIn"
                 /\ UNCHANGED <<rooms, games>>]_vars

\* the game create_room makes for username a under room id r
FreshGame(r, a) ==
    [board |-> [i \in 0..2 |-> [j \in 0..2 |-> ""]],
     players |-> <<[id |-> 0, username |-> a]>>,
     current_player |-> 0, game_id |-> r, winner |-> None, game_over |-> FALSE]

\* C7: create_room by a makes a new room that is waiting with members <<a>>
\* and a fresh game (empty board, player 0 to move, no winner) whose player
\* 0 is a; join_room of that room by another identity b makes it playing
\* with members <<a, b>>, players 0 = a and 1 = b, and answers player 1.
C7_CreateThenJoin ==
    [][\A c \in Clients :
          /\ (create_room(c) /\ session[c].username # NoUser)
                => LET a == session[c].username
                       r == resp'.room_id
                   IN /\ resp' = Response(c, "create_room", "success", r, 0)
                      /\ r \notin DOMAIN rooms
                      /\ DOMAIN rooms' = DOMAIN rooms \cup {r}
                      /\ DOMAIN games' = DOMAIN games \cup {r}
                      /\ rooms'[r].status = "waiting"
                      /\ rooms'[r].players = <<a>>
                      /\ games'[r] = FreshGame(r, a)
                      /\ session'[c].room_id = r /\ session'[c].player_num = 0
          /\ \A r \in DOMAIN rooms, a \in Names :
                (/\ join_room_commit(c) /\ pending[c].room_id = r
                 /\ rooms[r].status = "waiting" /\ rooms[r].players = <<a>>
                 /\ games[r] = FreshGame(r, a)
                 /\ session[c].username # a)
                => LET b == session[c].username
                   IN /\ rooms'[r].status = "playing"
                      /\ rooms'[r].players = <<a, b>>
                      /\ games'[r] = [FreshGame(r, a) EXCEPT !.players =
                            <<[id |-> 0, username |-> a], [id |-> 1, username |-> b]>>]
                      /\ resp' = Response(c, "join_room", "success", r, 1)
                      /\ session'[c].room_id = r /\ session'[c].player_num = 1]_vars

\* bob has joined the room alice created and was answered player 1
C7_Witness ==
    /\ resp = Response("c2", "join_room", "success", 1, 1)
    /\ 1 \in DOMAIN rooms
    /\ rooms[1] = [creator |-> "alice", players |-> <<"alice", "bob">>,
                   status |-> "playing"]
    /\ games[1].players = <<[id |-> 0, username |-> "alice"],
                            [id |-> 1, username |-> "bob"]>>

\* the rooms username u is a member of
RoomsOf(u) == {r \in DOMAIN rooms : u \in Range(rooms[r].players)}

\* C8: create_room by an identity that is a member of a room answers
\* AlreadyInRoom and creates no room, so that every identity is a member of
\* at most one room.
C8_OneRoomPerIdentity ==
    /\ [](\A u \in Names : Cardinality(RoomsOf(u)) <= 1)
    /\ [][\A c \in Clients :
            (create_room(c) /\ session[c].username # NoUser
                            /\ RoomsOf(session[c].username) # {})
                => /\ resp'.status = "AlreadyInRoom"
                   /\ UNCHANGED <<rooms, games>>]_vars

\* the join_room request of c for room r ended with failure status st and
\* changed neither a room, nor a game, nor the session of c
JoinFails(c, st) ==
    /\ resp' = Response(c, "join_room", st, NoRoom, None)
    /\ pending'[c] = Idle
    /\ UNCHANGED <<rooms, games, session>>

\* C9 as stated: join_room of a logged-in client fails with RoomNotFound
\* when the room id is not in the directory, with RoomNotWaiting when the
\* room is not waiting, with AlreadyMember when the identity is a member of
\* the room, and leaves room, game and session binding unchanged.
C9_JoinFailures ==
    [][\A c \in Clients, r \in 1..MaxRooms :
          (join_room_check(c, r) /\ session[c].username # NoUser)
              => /\ r \notin DOMAIN rooms => JoinFails(c, "RoomNotFound")
                 /\ (r \in DOMAIN rooms /\ rooms[r].status # "waiting")
                       => JoinFails(c, "RoomNotWaiting")
                 /\ (r \in DOMAIN rooms
                        /\ session[c].username \in Range(rooms[r].players))
                       => JoinFails(c, "AlreadyMember")]_vars

\* C9 amended: as C9, with AlreadyMember the answer when the identity is a
\* member of a room that is waiting (a member of a room that is not waiting
\* is answered RoomNotWaiting).
C9_JoinFailuresInOrder ==
    [][\A c \in Clients, r \in 1..MaxRooms :
          (join_room_check(c, r) /\ session[c].username # NoUser)
              => /\ r \notin DOMAIN rooms => JoinFails(c, "RoomNotFound")
                 /\ (r \in DOMAIN rooms /\ rooms[r].status # "waiting")
                       => JoinFails(c, "RoomNotWaiting")
                 /\ (r \in DOMAIN rooms /\ rooms[r].status = "waiting"
                        /\ session[c].username \in Range(rooms[r].players))
                       => JoinFails(c, "AlreadyMember")]_vars

\* alice asked to join the waiting room she created and was answered
\* AlreadyMember; the room is as create_room left it
C9_Witness ==
    /\ resp = Response("c1", "join_room", "AlreadyMember", NoRoom, None)
    /\ 1 \in DOMAIN rooms
    /\ rooms[1] = new_room("alice")
    /\ games[1] = FreshGame(1, "alice")
    /\ session["c1"].room_id = 1 /\ session["c1"].player_num = 0

\* C10: of two join_room requests by distinct identities for the same
\* waiting room whose steps interleave one is admitted as player 1 and the
\* other is not admitted: a player is admitted only to a room that is
\* waiting, and no room has more than two members.
C10_JoinRace ==
    /\ [](\A r \in DOMAIN rooms : Len(rooms[r].players) <= 2)
    /\ [][\A c \in Clients :
            (join_room_commit(c) /\ resp'.status = "success")
                => /\ rooms[pending[c].room_id].status = "waiting"
                   /\ resp'.player_num = 1]_vars

\* C11: in every reachable state every room of the directory has 0, 1 or 2
\* members, a waiting room has fewer than 2 members and a playing room has
\* exactly 2.
C11_RoomInvariant ==
    \A r \in DOMAIN rooms :
        /\ Len(rooms[r].players) \in {0, 1, 2}
        /\ rooms[r].status = "waiting" => Len(rooms[r].players) < 2
        /\ rooms[r].status = "playing" => Len(rooms[r].players) = 2

\* client c is logged in and its session names a room it is a member of
LeavesAsMember(c) ==
    /\ session[c].username # NoUser
    /\ session[c].room_id \in DOMAIN rooms
    /\ session[c].username \in Range(rooms[session[c].room_id].players)

\* the members of room r other than username u, in their order
Others(r, u) == SelectSeq(rooms[r].players, LAMBDA x : x # u)

\* C12: leave_room by a member of the room takes the identity out of the
\* members of the room; when one member remains the room becomes waiting;
\* when none remains the room and its game leave the directories in the
\* same step, whatever the winner of the game.
C12_LeaveRoom ==
    [][\A c \in Clients :
          (leave_room(c) /\ LeavesAsMember(c))
              => LET r == session[c].room_id
                     rest == Others(r, session[c].username)
                 IN /\ Len(rest) >= 1
                          => /\ r \in DOMAIN rooms'
                             /\ rooms'[r].players = rest
                    /\ Len(rest) = 1 => rooms'[r].status = "waiting"
                    /\ Len(rest) = 0
                          => /\ r \notin DOMAIN rooms'
                             /\ r \notin DOMAIN games']_vars

\* username u is bound to a slot of game g
HasSlot(g, u) == \E i \in 1..Len(g.players) : g.players[i].username = u

\* C13: when one of the two members of a playing room leaves, the room is
\* waiting with the other member alone; an identity that then joins the
\* room, and is neither of those two, is answered player 1 and is bound to
\* a slot of the game of the room.
C13_JoinAfterLeave ==
    [][\A c \in Clients :
          /\ (leave_room(c) /\ LeavesAsMember(c)
                /\ rooms[session[c].room_id].status = "playing"
                /\ Len(rooms[session[c].room_id].players) = 2)
                => LET r == session[c].room_id
                   IN /\ rooms'[r].status = "waiting"
                      /\ rooms'[r].players = Others(r, session[c].username)
                      /\ Len(rooms'[r].players) = 1
          /\ \A r \in DOMAIN rooms :
                (/\ join_room_commit(c) /\ pending[c].room_id = r
                 /\ rooms[r].status = "waiting"
                 /\ Len(rooms[r].players) = 1
                 /\ session[c].username \notin Range(rooms[r].players)
                 /\ ~ HasSlot(games[r], session[c].username))
                => /\ resp' = Response(c, "join_room", "success", r, 1)
                   /\ session'[c].player_num = 1
                   /\ HasSlot(games'[r], session[c].username)]_vars

\* C14: get_rooms of a logged-in client answers with exactly the rooms of
\* the directory that are waiting and do not have the identity among their
\* members, as the directory is at the call, and changes no state.
C14_ListJoinable ==
    [][\A c \in Clients :
          (get_rooms(c) /\ session[c].username # NoUser)
              => /\ resp'.client = c /\ resp'.status = "success"
                 /\ \A r \in 1..MaxRooms :
                       r \in resp'.rooms
                          <=> /\ r \in DOMAIN rooms
                              /\ rooms[r].status = "waiting"
                              /\ \A i \in 1..Len(rooms[r].players) :
                                    rooms[r].players[i] # session[c].username
                 /\ resp'.rooms \subseteq 1..MaxRooms
                 /\ UNCHANGED <<users, ACTIVE_SESSIONS, session, nextToken,
                                rooms, games, nextRoom, pending,
                                game_completion_times>>]_vars

\* bob was listed room 1 of carol, which is waiting, and not room 2, which
\* he created himself and which is waiting too
C14_Witness ==
    /\ resp.client = "c2" /\ resp.op = "get_rooms" /\ resp.rooms = {1}
    /\ session["c2"].username = "bob"
    /\ DOMAIN rooms = {1, 2}
    /\ rooms[1].status = "waiting" /\ rooms[1].players = <<"carol">>
    /\ rooms[2].status = "waiting" /\ rooms[2].players = <<"bob">>

-----------------------------------------------------------------------------
(* Properties of the game engine *)

\* the game of a move in flight is in the directory
MoveInFlightHasGame ==
    \A c \in Clients :
        pending[c].op = "move" => pending[c].room_id \in DOMAIN games

\* the eight lines of the board, each the set of its cells <<row, col>>
Lines ==
    { {<<0, 0>>, <<0, 1>>, <<0, 2>>}, {<<1, 0>>, <<1, 1>>, <<1, 2>>},
      {<<2, 0>>, <<2, 1>>, <<2, 2>>}, {<<0, 0>>, <<1, 0>>, <<2, 0>>},
      {<<0, 1>>, <<1, 1>>, <<2, 1>>}, {<<0, 2>>, <<1, 2>>, <<2, 2>>},
      {<<0, 0>>, <<1, 1>>, <<2, 2>>}, {<<0, 2>>, <<1, 1>>, <<2, 0>>} }

\* the mark of slot s
Mark(s) == IF s = 0 THEN "X" ELSE "O"

\* line l of board b holds mark m in its three cells
LineOf(b, l, m) == \A cell \in l : b[cell[1]][cell[2]] = m

\* mark m fills one of the eight lines of board b
Fills(b, m) == \E l \in Lines : LineOf(b, l, m)

\* the cells of board b that hold a mark
Marked(b) == {cell \in (0..2) \X (0..2) : b[cell[1]][cell[2]] # ""}

\* client c is logged in and its session names a game of the directory
InGame(c) ==
    /\ session[c].username # NoUser
    /\ session[c].game_id \in DOMAIN games

\* the response of a move request of c carries status st and the grid, the
\* player to move and the winner of game g
MoveAnswer(c, st, g) ==
    /\ resp'.client = c /\ resp'.op = "move" /\ resp'.status = st
    /\ resp'.board = g.board
    /\ resp'.current_player = g.current_player
    /\ resp'.winner = g.winner

\* C15: a move request for a game that has a winner or a draw, or by a
\* client whose player number is not the one to move, or for a cell that
\* holds a mark, changes no game (grid, player to move and winner are as
\* before) and is answered with an error that carries that state.
C15_RejectedMove ==
    [][\A c \in Clients, row \in 0..2, col \in 0..2 :
          (/\ make_move_place(c, row, col)
           /\ InGame(c)
           /\ \/ games[session[c].game_id].winner # None
              \/ session[c].player_num # games[session[c].game_id].current_player
              \/ games[session[c].game_id].board[row][col] # "")
              => /\ games' = games
                 /\ pending'[c] = Idle
                 /\ MoveAnswer(c, "error", games[session[c].game_id])]_vars

\* alice, whose turn it is in an unfinished game, was refused a move: the
\* cell she asked for holds a mark
C15_Witness ==
    /\ resp.client = "c1" /\ resp.op = "move" /\ resp.status = "error"
    /\ 1 \in DOMAIN games
    /\ games[1].winner = None /\ games[1].current_player = 0
    /\ session["c1"].game_id = 1 /\ session["c1"].player_num = 0
    /\ resp.board = games[1].board
    /\ Cardinality(Marked(games[1].board)) = 2
    /\ pending = [c \in Clients |-> Idle]

\* C16: in a game without winner or draw, a move of the client whose
\* player number is the one to move, for a cell that holds no mark, is not
\* refused: the mark is written and the request is answered success.
C16_TurnMoveAccepted ==
    [][\A c \in Clients :
          /\ \A row \in 0..2, col \in 0..2 :
                (/\ make_move_place(c, row, col)
                 /\ InGame(c)
                 /\ games[session[c].game_id].winner = None
                 /\ session[c].player_num = games[session[c].game_id].current_player
                 /\ games[session[c].game_id].board[row][col] = "")
                    => /\ pending'[c].op = "move"
                       /\ games'[session[c].game_id].board[row][col]
                             = Mark(session[c].player_num)
          /\ make_move_finish(c)
                => /\ resp'.client = c /\ resp'.op = "move"
                   /\ resp'.status = "success"]_vars

\* bob was answered success for the fourth mark of a game that goes on
C16_Witness ==
    /\ resp.client = "c2" /\ resp.op = "move" /\ resp.status = "success"
    /\ resp.winner = None /\ resp.current_player = 0
    /\ Cardinality(Marked(resp.board)) = 4

\* C17: a move that is not refused writes the mark of its slot s into the
\* cell asked for and changes nothing else of the game; then, if the mark
\* fills a line, the winner is s; else, if no cell is empty, the game is a
\* draw; else the player to move is 1 - s.
C17_AcceptedMove ==
    [][\A c \in Clients :
          /\ \A row \in 0..2, col \in 0..2 :
                (make_move_place(c, row, col) /\ pending'[c].op = "move")
                    => LET before == games[session[c].game_id]
                           after == games'[session[c].game_id]
                       IN /\ after.board[row][col] = Mark(session[c].player_num)
                          /\ \A i \in 0..2, j \in 0..2 :
                                <<i, j>> # <<row, col>>
                                    => after.board[i][j] = before.board[i][j]
                          /\ [after EXCEPT !.board = before.board] = before
          /\ make_move_finish(c)
                => LET s == session[c].player_num
                       before == games[pending[c].room_id]
                       after == games'[pending[c].room_id]
                   IN /\ after.board = before.board
                      /\ after.players = before.players
                      /\ IF Fills(before.board, Mark(s))
                         THEN /\ after.winner = s /\ after.game_over
                         ELSE IF Marked(before.board) = (0..2) \X (0..2)
                         THEN /\ after.winner = Draw /\ after.game_over
                         ELSE /\ after.winner = None /\ ~ after.game_over
                              /\ after.current_player = 1 - s
                      /\ MoveAnswer(c, "success", after)]_vars

\* the ninth mark filled a line: alice was answered that player 0 won
C17_Witness ==
    /\ resp.client = "c1" /\ resp.op = "move" /\ resp.status = "success"
    /\ resp.winner = 0
    /\ Marked(resp.board) = (0..2) \X (0..2)

\* C18: in every reachable state the winner of a game is s exactly when
\* the mark of slot s fills a line, the game is a draw exactly when no cell
\* is empty and neither mark fills a line, and game_over is set exactly
\* when the game has a winner or is a draw.
C18_OutcomeOfGrid ==
    \A r \in DOMAIN games :
        /\ \A s \in {0, 1} :
              games[r].winner = s <=> Fills(games[r].board, Mark(s))
        /\ games[r].winner = Draw
              <=> /\ Marked(games[r].board) = (0..2) \X (0..2)
                  /\ ~ Fills(games[r].board, "X")
                  /\ ~ Fills(games[r].board, "O")
        /\ games[r].winner \in {None, 0, 1, Draw}
        /\ games[r].game_over <=> games[r].winner # None

\* C19: a game that has a winner or is a draw keeps its grid, its player to
\* move and its winner as long as it is in the directory, and every move
\* request for it, of either client, is refused with an error that shows
\* the winner.
C19_TerminalAbsorbing ==
    [][\A r \in DOMAIN games :
          games[r].winner # None
              => /\ r \in DOMAIN games'
                    => /\ games'[r].board = games[r].board
                       /\ games'[r].current_player = games[r].current_player
                       /\ games'[r].winner = games[r].winner
                       /\ games'[r].game_over = games[r].game_over
                 /\ \A c \in Clients, row \in 0..2, col \in 0..2 :
                       (/\ make_move_place(c, row, col)
                        /\ session[c].username # NoUser
                        /\ session[c].game_id = r)
                           => /\ pending'[c] = Idle
                              /\ MoveAnswer(c, "error", games[r])]_vars

\* alice won; bob asked for an empty cell of the finished game and was
\* refused
C19_Witness ==
    /\ resp.client = "c2" /\ resp.op = "move" /\ resp.status = "error"
    /\ resp.winner = 0
    /\ session["c2"].player_num = 1
    /\ Marked(resp.board) # (0..2) \X (0..2)

\* C20: on every board a game reaches, for each of the eight lines and
\* each mark: when the line holds the mark in its three cells check_winner
\* is true for the mark and false for the other mark; and check_winner is
\* false for a mark that fills none of the eight lines.
C20_CheckWinner ==
    \A r \in DOMAIN games :
        /\ \A l \in Lines, s \in {0, 1} :
              LineOf(games[r].board, l, Mark(s))
                  => /\ check_winner(games[r].board, Mark(s))
                     /\ ~ check_winner(games[r].board, Mark(1 - s))
        /\ \A s \in {0, 1} :
              ~ Fills(games[r].board, Mark(s))
                  => ~ check_winner(games[r].board, Mark(s))

\* a game in which the diagonal from the top right holds three O
C20_Witness ==
    \E r \in DOMAIN games :
        LineOf(games[r].board, {<<0, 2>>, <<1, 1>>, <<2, 0>>}, "O")

-----------------------------------------------------------------------------
(* Properties of the statistics, the polls and the cleanup *)

\* game r gets its winner or becomes a draw in this step
GameEnds(r) ==
    /\ r \in DOMAIN games /\ games[r].winner = None
    /\ r \in DOMAIN games' /\ games'[r].winner # None

Credited(u, k) ==
    /\ users'[u].wins = users[u].wins + (IF k = "wins" THEN 1 ELSE 0)
    /\ users'[u].losses = users[u].losses + (IF k = "losses" THEN 1 ELSE 0)
    /\ users'[u].draws = users[u].draws + (IF k = "draws" THEN 1 ELSE 0)
    /\ users'[u].games_played = users[u].games_played + 1

\* C22: when the game of a room ends with winner w, the identity of slot w
\* is credited a win and the other member of the room a loss; when it ends
\* in a draw each member of the room is credited a draw; the counters of
\* every other identity stay as they are.
C22_StatsCredit ==
    [][\A r \in DOMAIN games :
          (GameEnds(r) /\ r \in DOMAIN rooms)
              => LET w == games'[r].winner
                     members == Range(rooms[r].players)
                 IN /\ \A u \in DOMAIN users :
                          u \notin members => users'[u] = users[u]
                    /\ w = Draw => \A u \in members : Credited(u, "draws")
                    /\ w \in {0, 1}
                          => \A u \in members :
                                IF u = games[r].players[w + 1].username
                                THEN Credited(u, "wins")
                                ELSE Credited(u, "losses")]_vars

\* C23: a poll of a logged-in client for the room of its session is answered
\* not found exactly when the room is not in the directory, not a member
\* exactly when the room is there and the identity is not among its members,
\* and otherwise with the grid, the player to move and the winner of the
\* game as they are, and the slot the identity holds in the game.
C23_Snapshot ==
    [][\A c \in Clients :
          (/\ get_game_state_check(c)
           /\ session[c].username # NoUser
           /\ pending'[c] = Idle)
              => LET r == session[c].game_id
                     u == session[c].username
                     member == /\ r \in DOMAIN rooms
                               /\ u \in Range(rooms[r].players)
                 IN /\ resp'.client = c /\ resp'.op = "game_state"
                    /\ resp'.status = "GameNotFound" <=> r \notin DOMAIN rooms
                    /\ resp'.status = "NotInThisGame"
                          <=> (r \in DOMAIN rooms /\ ~ member)
                    /\ member
                          => /\ resp'.status = "success"
                             /\ resp'.board = games[r].board
                             /\ resp'.current_player = games[r].current_player
                             /\ resp'.winner = games[r].winner
                             /\ resp'.player_num \in {0, 1}
                             /\ games[r].players[resp'.player_num + 1].username = u]_vars

\* client c polls a finished game it is a player of, whose completion time
\* is recorded
PollsFinished(c) ==
    /\ get_game_state_check(c)
    /\ InGame(c)
    /\ user_in_game(games[session[c].game_id], session[c].username)
    /\ games[session[c].game_id].winner # None
    /\ session[c].game_id \in DOMAIN game_completion_times

\* C24: a poll of a player of a finished game made while no more than
\* CleanupDelay seconds have passed since the completion is answered with
\* the game and leaves the room in the directory; a poll made later is
\* answered not found.
C24_GracePeriod ==
    [][\A c \in Clients :
          PollsFinished(c)
              => LET r == session[c].game_id
                 IN IF now - game_completion_times[r] <= CleanupDelay
                    THEN /\ resp'.client = c /\ resp'.status = "success"
                         /\ resp'.winner = games[r].winner
                         /\ r \in DOMAIN rooms => r \in DOMAIN rooms'
                         /\ r \in DOMAIN games'
                    ELSE resp' = Response(c, "game_state", "GameNotFound",
                                          NoRoom, None)]_vars

\* a step of a poll of client c
PollStep(c) == get_game_state_check(c) \/ get_game_state_commit(c)

PollAnswered(c) ==
    /\ get_game_state_check(c)
    /\ pending'[c] = Idle
    /\ resp'.client = c /\ resp'.op = "game_state" /\ resp'.status = "success"

\* C26: a poll answered while a move on the same game is in flight (its
\* mark written, winner and player to move not yet settled) does not show
\* the mark of that move: the grid of the answer has the cell empty.
C26_SnapshotAtomic ==
    [][\A c \in Clients, d \in Clients :
          (/\ PollAnswered(c)
           /\ pending[d].op = "move"
           /\ pending[d].room_id = resp'.room_id)
              => resp'.board[pending[d].row][pending[d].col] = ""]_vars

\* C27: a poll that goes on to the cleanup of a finished game ends with the
\* state of the game or with not found, whatever other polls of the same
\* game did between its two steps.
C27_CleanupRace ==
    [][\A c \in Clients :
          get_game_state_commit(c)
              => /\ resp'.client = c /\ resp'.op = "game_state"
                 /\ resp'.status \in {"success", "GameNotFound"}]_vars

\* the usernames of the players of game g, in the order of their slots
SlotNames(g) == [i \in 1..Len(g.players) |-> g.players[i].username]

\* C28: every room has a game, and the players of the game are the members
\* of the room in the same order; a playing room has two of them.
C28_MembersAreSlots ==
    \A r \in DOMAIN rooms :
        /\ r \in DOMAIN games
        /\ SlotNames(games[r]) = rooms[r].players
        /\ rooms[r].status = "playing" => Len(games[r].players) = 2

\* C29: a move request of client c writes a mark only when the session of
\* c holds a slot of the game and the player of that slot is the user the
\* session is logged in as.
C29_MoveByOwner ==
    [][\A c \in Clients, row \in 0..2, col \in 0..2 :
          (make_move_place(c, row, col) /\ games' # games)
              => LET g == games[session[c].game_id]
                     s == session[c].player_num
                 IN /\ s \in 0..(Len(g.players) - 1)
                    /\ g.players[s + 1].username = session[c].username]_vars

\* C30: the grid of a game changes only in a step taken while its room is
\* playing and has two members.
C30_NoMoveWhileWaiting ==
    [][\A r \in DOMAIN games :
          (r \in DOMAIN games' /\ games'[r].board # games[r].board)
              => /\ r \in DOMAIN rooms
                 /\ rooms[r].status = "playing"
                 /\ Len(rooms[r].players) = 2]_vars

-----------------------------------------------------------------------------
(* Properties of the completion times and of the turn *)

\* C31: the completion time of a game is written by the step that ends the
\* game, and no later step changes it while it is recorded.
C31_CompletionTimeOnce ==
    [][/\ \A r \in DOMAIN games :
             GameEnds(r) => /\ r \in DOMAIN game_completion_times'
                            /\ game_completion_times'[r] = now
       /\ \A r \in DOMAIN game_completion_times :
             r \in DOMAIN game_completion_times'
                => game_completion_times'[r] = game_completion_times[r]]_vars

\* C32: a finished game whose players keep polling while time goes on is
\* removed in the end, room and game, whatever other requests are made.
C32_CleanupLive ==
    \A r \in 1..MaxRooms :
        (r \in DOMAIN games /\ games[r].winner # None)
            ~> (r \notin DOMAIN rooms /\ r \notin DOMAIN games)

\* the number of cells of board b that hold mark m
CountOf(b, m) == Cardinality({cell \in Marked(b) : b[cell[1]][cell[2]] = m})

\* C33: in every game the X are as many as the O or one more, and while
\* the game has no winner and is no draw, player 0 is to move exactly when
\* they are as many and player 1 exactly when there is one X more.
C33_TurnOfGrid ==
    \A r \in DOMAIN games :
        LET g == games[r]
            x == CountOf(g.board, Mark(0))
            o == CountOf(g.board, Mark(1))
        IN /\ x - o \in {0, 1}
           /\ g.winner = None
                 => /\ g.current_player = 0 <=> x = o
                    /\ g.current_player = 1 <=> x = o + 1

\* C34: a completion time is recorded only for a game that is in the
\* directory and has a winner or is a draw.
C34_TimesOfFinishedGames ==
    \A r \in DOMAIN game_completion_times :
        /\ r \in DOMAIN games
        /\ games[r].winner # None

====
